---- MODULE Spec2Model ----
(***************************************************************************)
(* A model of src/utils/reddit_api.py: get_access_token, fetch_posts and   *)
(* fetch_comments (with its nested extract_comments).  The three functions *)
(* are stateless; a state of the model is one call: its arguments, the     *)
(* behaviour of the HTTP layer for that call, the requests the call has    *)
(* issued and the call's outcome (a returned value or a raised exception). *)
(*                                                                         *)
(* Python values are tagged records, so that values of different Python    *)
(* types can be compared:                                                  *)
(*   None    [t |-> "null"]          str   [t |-> "str",  s |-> "..."]     *)
(*   int     [t |-> "int", n |-> 3]  bool  [t |-> "bool", b |-> TRUE]      *)
(*   float   [t |-> "float", q |-> "2.5"]                                  *)
(*   list    [t |-> "list", items |-> <<...>>]                             *)
(*   dict    [t |-> "dict", f |-> a function from keys to values]          *)
(***************************************************************************)
EXTENDS Integers, Sequences, FiniteSets, TLC

VARIABLES op, args, server, pc, http, outcome

vars == <<op, args, server, pc, http, outcome>>

(***************************************************************************)
(* Bounds of the model.                                                    *)
(***************************************************************************)
\* comment entries (of any kind) in one /comments response, over all depths
MaxNodes == 3
\* children in one /r/{subreddit}/{timeline} listing
MaxPosts == 3

(***************************************************************************)
(* Python values.                                                          *)
(***************************************************************************)
None == [t |-> "null"]
Str(s) == [t |-> "str", s |-> s]
Num(n) == [t |-> "int", n |-> n]
Bool(b) == [t |-> "bool", b |-> b]
Float(q) == [t |-> "float", q |-> q]
List(items) == [t |-> "list", items |-> items]
Dict(f) == [t |-> "dict", f |-> f]
EmptyDict == Dict(<<>>)

\* Outcome of an expression or a call: a value, or a raised exception.
Ok(v) == [ok |-> TRUE, val |-> v]
Raise(e) == [ok |-> FALSE, exc |-> e]

\* isinstance(v, dict), isinstance(v, list), isinstance(v, str)
IsDict(v) == v.t = "dict"
IsList(v) == v.t = "list"
IsStr(v) == v.t = "str"
\* isinstance(v, int): bool is a subclass of int in Python
IsInt(v) == v.t \in {"int", "bool"}
\* the integer an int or a bool compares as (True = 1, False = 0)
IntVal(v) == IF v.t = "bool" THEN (IF v.b THEN 1 ELSE 0) ELSE v.n

\* Python truthiness, as `not v` uses it
Truthy(v) ==
    CASE v.t = "null" -> FALSE
      [] v.t = "str" -> v.s # ""
      [] v.t = "int" -> v.n # 0
      [] v.t = "bool" -> v.b
      [] v.t = "float" -> v.q # "0.0"
      [] v.t = "list" -> v.items # <<>>
      [] v.t = "dict" -> DOMAIN v.f # {}

\* d.get(k, default) on a dict d
Get(d, k, default) == IF k \in DOMAIN d.f THEN d.f[k] ELSE default

\* v.get(k, default) on any value: only a dict has the method
GetAttr(v, k, default) ==
    IF IsDict(v) THEN Ok(Get(v, k, default)) ELSE Raise("AttributeError")

\* v[k] with a str key k
Subscript(v, k) ==
    IF IsDict(v)
    THEN (IF k \in DOMAIN v.f THEN Ok(v.f[k]) ELSE Raise("KeyError"))
    ELSE Raise("TypeError")

\* `k in v` with a str key k.  On a str it is the substring test; none of
\* the strings of this model properly contains one of the keys tested, so
\* it is equality there.
In(k, v) ==
    CASE v.t = "dict" -> Ok(k \in DOMAIN v.f)
      [] v.t = "list" -> Ok(\E i \in 1..Len(v.items) : v.items[i] = Str(k))
      [] v.t = "str" -> Ok(v.s = k)
      [] OTHER -> Raise("TypeError")

(***************************************************************************)
(* The HTTP layer (the requests library) as the code uses it.  `server`    *)
(* fixes, for one call, what the single request of the call meets:         *)
(*   net    "ok", or the transport failure requests.post/get raises        *)
(*   status the HTTP status of the response                                *)
(*   body   the value response.json() parses, or InvalidJson               *)
(*   jsonErrorIsRequestException  whether the installed requests raises    *)
(*          requests.exceptions.JSONDecodeError (a RequestException and a  *)
(*          ValueError, requests >= 2.27) or a plain ValueError subclass   *)
(***************************************************************************)
InvalidJson == [t |-> "invalid"]

TransportFailures == {"ConnectionError", "Timeout"}

\* the classes an exception raised inside a try block is an instance of
Classes(exc, srv) ==
    CASE exc \in TransportFailures \cup {"HTTPError"} -> {exc, "RequestException"}
      [] exc = "JSONDecodeError" ->
            IF srv.jsonErrorIsRequestException
            THEN {exc, "RequestException", "ValueError"}
            ELSE {exc, "ValueError"}
      [] OTHER -> {exc}

\* requests.post(...) / requests.get(...): the response, or a transport failure
Send(srv) == IF srv.net = "ok" THEN Ok(srv) ELSE Raise(srv.net)

\* response.raise_for_status(): HTTPError for a 4xx or 5xx status
raise_for_status(response) ==
    IF response.status >= 400 /\ response.status < 600
    THEN Raise("HTTPError") ELSE Ok(None)

\* response.json()
json(response) ==
    IF response.body = InvalidJson THEN Raise("JSONDecodeError") ELSE Ok(response.body)

\* the request, its status check and the parse of its body, in that order
Fetch(srv) ==
    LET response == Send(srv) IN
    IF ~response.ok THEN response
    ELSE IF ~raise_for_status(response.val).ok THEN raise_for_status(response.val)
    ELSE json(response.val)

\* try: ... except RequestException: raise RequestException(...)
\*          except <caught>: raise ValueError(...)
\* The clauses are tried in order; an exception neither names propagates.
TryExcept(r, caught, srv) ==
    IF r.ok THEN r
    ELSE IF "RequestException" \in Classes(r.exc, srv) THEN Raise("RequestException")
    ELSE IF Classes(r.exc, srv) \cap caught # {} THEN Raise("ValueError")
    ELSE r

(***************************************************************************)
(* get_access_token                                                        *)
(***************************************************************************)
TokenUrl == <<"https://www.reddit.com/api/v1/access_token">>

TokenRequest(client_id, secret_key) ==
    [method |-> "POST", url |-> TokenUrl, auth |-> <<client_id, secret_key>>,
     data |-> [grant_type |-> "client_credentials"], params |-> None,
     timeout |-> 30]

\* the body of the try block, after the request
TokenBody(token_data) ==
    LET has == In("access_token", token_data) IN
    IF ~has.ok THEN has
    ELSE IF ~has.val THEN Raise("ValueError")
    ELSE Subscript(token_data, "access_token")

get_access_token_result(srv) ==
    LET token_data == Fetch(srv) IN
    TryExcept(IF token_data.ok THEN TokenBody(token_data.val) ELSE token_data,
              {"ValueError", "KeyError"}, srv)

get_access_token ==
    /\ pc = "call"
    /\ op = "get_access_token"
    /\ http' = Append(http, TokenRequest(args.client_id, args.secret_key))
    /\ outcome' = get_access_token_result(server)
    /\ pc' = "done"
    /\ UNCHANGED <<op, args, server>>

(***************************************************************************)
(* fetch_posts                                                             *)
(***************************************************************************)
RedditTimeline == {"hot", "new", "top", "rising"}

PostsRequest(subreddit, limit, token, timeline) ==
    [method |-> "GET",
     url |-> <<"https://oauth.reddit.com/r/", subreddit, "/", timeline>>,
     auth |-> <<"bearer", token>>, data |-> None,
     params |-> [limit |-> limit], timeout |-> 30]

\* Variant of PostsInputValid: the upper bound of limit is not checked.
PostsInputValid_noUpperBound(subreddit, limit) ==
    /\ ~(~Truthy(subreddit) \/ ~IsStr(subreddit))
    /\ ~(~IsInt(limit) \/ IntVal(limit) < 1)

\* the two checks made before the try block
PostsInputValid(subreddit, limit) ==
    /\ ~(~Truthy(subreddit) \/ ~IsStr(subreddit))
    /\ ~(~IsInt(limit) \/ IntVal(limit) < 1 \/ IntVal(limit) > 100)

\* "data" not in data or "children" not in data["data"]
PostsShapeInvalid(data) ==
    LET hasData == In("data", data) IN
    IF ~hasData.ok THEN hasData
    ELSE IF ~hasData.val THEN Ok(TRUE)
    ELSE LET inner == Subscript(data, "data") IN
         IF ~inner.ok THEN inner
         ELSE LET hasChildren == In("children", inner.val) IN
              IF ~hasChildren.ok THEN hasChildren ELSE Ok(~hasChildren.val)

\* the elements a for loop visits: the items of a list, the keys of a dict,
\* the characters of a str (each a str); anything else is not iterable.
\* The strings this model iterates have at most one character, and the loops
\* of this module treat every str element alike, so the order of a dict's
\* keys does not show in any outcome.
RECURSIVE SetToSeq(_)
SetToSeq(S) ==
    IF S = {} THEN <<>>
    ELSE LET x == CHOOSE y \in S : TRUE IN <<Str(x)>> \o SetToSeq(S \ {x})

Iter(v) ==
    CASE v.t = "list" -> Ok(v.items)
      [] v.t = "dict" -> Ok(SetToSeq(DOMAIN v.f))
      [] v.t = "str" -> Ok(IF v.s = "" THEN <<>> ELSE <<Str(v.s)>>)
      [] OTHER -> Raise("TypeError")

RECURSIVE PostsLoop(_, _, _)

\* Variant of PostsLoop: posts.extend(post["data"]) in place of append, which
\* adds the keys of the payload.
PostsLoop_extend(items, i, posts) ==
    IF i > Len(items) THEN Ok(posts)
    ELSE LET has == In("data", items[i]) IN
         IF ~has.ok THEN has
         ELSE IF ~has.val THEN PostsLoop(items, i + 1, posts)
         ELSE LET d == Subscript(items[i], "data") IN
              IF ~d.ok THEN d
              ELSE LET keys == Iter(d.val) IN
                   IF ~keys.ok THEN keys
                   ELSE PostsLoop(items, i + 1, posts \o keys.val)

\* for post in <children>: if "data" in post: posts.append(post["data"])
PostsLoop(items, i, posts) ==
    IF i > Len(items) THEN Ok(posts)
    ELSE LET has == In("data", items[i]) IN
         IF ~has.ok THEN has
         ELSE IF ~has.val THEN PostsLoop(items, i + 1, posts)
         ELSE LET d == Subscript(items[i], "data") IN
              IF ~d.ok THEN d ELSE PostsLoop(items, i + 1, Append(posts, d.val))

PostsBody(data) ==
    LET bad == PostsShapeInvalid(data) IN
    IF ~bad.ok THEN bad
    ELSE IF bad.val THEN Raise("KeyError")
    ELSE LET inner == Subscript(data, "data") IN
         IF ~inner.ok THEN inner
         ELSE LET listing == Subscript(inner.val, "children") IN
              IF ~listing.ok THEN listing
              ELSE LET children == Iter(listing.val) IN
                   IF ~children.ok THEN children
                   ELSE PostsLoop(children.val, 1, <<>>)

fetch_posts_result(srv) ==
    LET data == Fetch(srv) IN
    TryExcept(IF data.ok THEN PostsBody(data.val) ELSE data,
              {"KeyError", "ValueError"}, srv)

fetch_posts ==
    /\ pc = "call"
    /\ op = "fetch_posts"
    /\ IF PostsInputValid(args.subreddit, args.limit)
       THEN /\ http' = Append(http, PostsRequest(args.subreddit, args.limit,
                                                 args.token, args.timeline))
            /\ outcome' = fetch_posts_result(server)
       ELSE /\ http' = http
            /\ outcome' = Raise("ValueError")
    /\ pc' = "done"
    /\ UNCHANGED <<op, args, server>>

(***************************************************************************)
(* fetch_comments and its nested extract_comments                          *)
(***************************************************************************)
CommentsRequest(post_id, token) ==
    [method |-> "GET", url |-> <<"https://oauth.reddit.com/comments/", post_id>>,
     auth |-> <<"bearer", token>>, data |-> None, params |-> None,
     timeout |-> 30]

\* the record extract_comments builds from a comment's data
FlatComment(post_id, comment_data, parent_id, level) ==
    [comment_id |-> Get(comment_data, "id", None),
     post_id |-> post_id,
     parent_comment_id |-> parent_id,
     author |-> Get(comment_data, "author", None),
     body |-> Get(comment_data, "body", None),
     score |-> Get(comment_data, "score", None),
     created_utc |-> Get(comment_data, "created_utc", None),
     edited |-> Get(comment_data, "edited", Bool(FALSE)),
     is_submitter |-> Get(comment_data, "is_submitter", Bool(FALSE)),
     stickied |-> Get(comment_data, "stickied", Bool(FALSE)),
     level |-> level]

\* replies.get("data", {}).get("children", [])
RepliesChildren(replies) ==
    LET d == Get(replies, "data", EmptyDict) IN GetAttr(d, "children", List(<<>>))

RECURSIVE extract_comments(_, _, _, _)
RECURSIVE RepliesLoop(_, _, _, _, _, _)

\* Variant of RepliesLoop: the kind of a child is not looked at.
RepliesLoop_anyKind(post_id, items, i, processed, comment_id, level) ==
    IF i > Len(items) THEN Ok(processed)
    ELSE LET kind == GetAttr(items[i], "kind", None) IN
         IF ~kind.ok THEN kind
         ELSE LET sub == extract_comments(post_id, Get(items[i], "data", EmptyDict),
                                          comment_id, level + 1) IN
              IF ~sub.ok THEN sub
              ELSE RepliesLoop(post_id, items, i + 1, processed \o sub.val,
                               comment_id, level)

\* Variant of RepliesLoop: the recursive call passes level, not level + 1.
RepliesLoop_sameLevel(post_id, items, i, processed, comment_id, level) ==
    IF i > Len(items) THEN Ok(processed)
    ELSE LET kind == GetAttr(items[i], "kind", None) IN
         IF ~kind.ok THEN kind
         ELSE IF kind.val # Str("t1")
         THEN RepliesLoop(post_id, items, i + 1, processed, comment_id, level)
         ELSE LET sub == extract_comments(post_id, Get(items[i], "data", EmptyDict),
                                          comment_id, level) IN
              IF ~sub.ok THEN sub
              ELSE RepliesLoop(post_id, items, i + 1, processed \o sub.val,
                               comment_id, level)

\* Variant of RepliesLoop: the recursive call leaves parent_id at its default.
RepliesLoop_noParent(post_id, items, i, processed, comment_id, level) ==
    IF i > Len(items) THEN Ok(processed)
    ELSE LET kind == GetAttr(items[i], "kind", None) IN
         IF ~kind.ok THEN kind
         ELSE IF kind.val # Str("t1")
         THEN RepliesLoop(post_id, items, i + 1, processed, comment_id, level)
         ELSE LET sub == extract_comments(post_id, Get(items[i], "data", EmptyDict),
                                          None, level + 1) IN
              IF ~sub.ok THEN sub
              ELSE RepliesLoop(post_id, items, i + 1, processed \o sub.val,
                               comment_id, level)

\* for child in children: if child.get("kind") == "t1":
\*     processed.extend(extract_comments(child.get("data", {}), parent_id=..., level=level + 1))
RepliesLoop(post_id, items, i, processed, comment_id, level) ==
    IF i > Len(items) THEN Ok(processed)
    ELSE LET kind == GetAttr(items[i], "kind", None) IN
         IF ~kind.ok THEN kind
         ELSE IF kind.val # Str("t1")
         THEN RepliesLoop(post_id, items, i + 1, processed, comment_id, level)
         ELSE LET sub == extract_comments(post_id, Get(items[i], "data", EmptyDict),
                                          comment_id, level + 1) IN
              IF ~sub.ok THEN sub
              ELSE RepliesLoop(post_id, items, i + 1, processed \o sub.val,
                               comment_id, level)

\* Variant of extract_comments: the comment's record is appended after its
\* replies have been processed.
extract_comments_appendLast(post_id, comment_data, parent_id, level) ==
    IF ~IsDict(comment_data) THEN Ok(<<>>)
    ELSE LET comment == FlatComment(post_id, comment_data, parent_id, level)
             replies == Get(comment_data, "replies", Str(""))
         IN  IF ~IsDict(replies) THEN Ok(<<comment>>)
             ELSE LET listing == RepliesChildren(replies) IN
                  IF ~listing.ok THEN listing
                  ELSE LET children == Iter(listing.val) IN
                       IF ~children.ok THEN children
                       ELSE LET sub == RepliesLoop(post_id, children.val, 1, <<>>,
                                                   comment.comment_id, level) IN
                            IF ~sub.ok THEN sub ELSE Ok(Append(sub.val, comment))

\* Variant of extract_comments: no isinstance check of comment_data, so that
\* comment_data.get raises on a value that is not a dict.
extract_comments_noTypeCheck(post_id, comment_data, parent_id, level) ==
    IF ~IsDict(comment_data) THEN Raise("AttributeError")
    ELSE LET comment == FlatComment(post_id, comment_data, parent_id, level)
             replies == Get(comment_data, "replies", Str(""))
         IN  IF ~IsDict(replies) THEN Ok(<<comment>>)
             ELSE LET listing == RepliesChildren(replies) IN
                  IF ~listing.ok THEN listing
                  ELSE LET children == Iter(listing.val) IN
                       IF ~children.ok THEN children
                       ELSE RepliesLoop(post_id, children.val, 1, <<comment>>,
                                        comment.comment_id, level)

extract_comments(post_id, comment_data, parent_id, level) ==
    IF ~IsDict(comment_data) THEN Ok(<<>>)
    ELSE LET comment == FlatComment(post_id, comment_data, parent_id, level)
             replies == Get(comment_data, "replies", Str(""))
         IN  IF ~IsDict(replies) THEN Ok(<<comment>>)
             ELSE LET listing == RepliesChildren(replies) IN
                  IF ~listing.ok THEN listing
                  ELSE LET children == Iter(listing.val) IN
                       IF ~children.ok THEN children
                       ELSE RepliesLoop(post_id, children.val, 1, <<comment>>,
                                        comment.comment_id, level)

\* for comment in comment_listing: if comment["kind"] == "t1":
\*     all_comments.extend(extract_comments(comment["data"]))
RECURSIVE TopLevelLoop(_, _, _, _)
TopLevelLoop(post_id, items, i, all_comments) ==
    IF i > Len(items) THEN Ok(all_comments)
    ELSE LET kind == Subscript(items[i], "kind") IN
         IF ~kind.ok THEN kind
         ELSE IF kind.val # Str("t1")
         THEN TopLevelLoop(post_id, items, i + 1, all_comments)
         ELSE LET d == Subscript(items[i], "data") IN
              IF ~d.ok THEN d
              ELSE LET sub == extract_comments(post_id, d.val, None, 0) IN
                   IF ~sub.ok THEN sub
                   ELSE TopLevelLoop(post_id, items, i + 1, all_comments \o sub.val)

\* the body of the try block, after the request
CommentsBody(post_id, data) ==
    IF ~IsList(data) \/ Len(data.items) < 2 THEN Raise("KeyError")
    ELSE LET inner == Subscript(data.items[2], "data") IN
         IF ~inner.ok THEN inner
         ELSE LET comment_listing == Subscript(inner.val, "children") IN
              IF ~comment_listing.ok THEN comment_listing
              ELSE LET children == Iter(comment_listing.val) IN
                   IF ~children.ok THEN children
                   ELSE TopLevelLoop(post_id, children.val, 1, <<>>)

fetch_comments_result(post_id, srv) ==
    LET data == Fetch(srv) IN
    TryExcept(IF data.ok THEN CommentsBody(post_id, data.val) ELSE data,
              {"KeyError", "ValueError", "TypeError"}, srv)

fetch_comments ==
    /\ pc = "call"
    /\ op = "fetch_comments"
    /\ IF ~Truthy(args.post_id) \/ ~IsStr(args.post_id)
       THEN /\ http' = http
            /\ outcome' = Raise("ValueError")
       ELSE /\ http' = Append(http, CommentsRequest(args.post_id, args.token))
            /\ outcome' = fetch_comments_result(args.post_id, server)
    /\ pc' = "done"
    /\ UNCHANGED <<op, args, server>>

(***************************************************************************)
(* The calls and the responses the model explores.                         *)
(***************************************************************************)
\* a key that a dict may lack
Absent == [t |-> "absent"]
Field(k, v) == IF v = Absent THEN <<>> ELSE (k :> v)

\* a listing object: {"kind": "Listing", "data": {"children": children}}
Listing(children) ==
    Dict(("kind" :> Str("Listing")) @@ ("data" :> Dict("children" :> children)))

\* element 0 of a /comments response: the post's own listing
PostListing == Listing(List(<<Dict(("kind" :> Str("t3")) @@ ("data" :> Dict("id" :> Str("abc123"))))>>))

\* a comment's data, and its entry in a listing's children
CommentData(id, replies) ==
    Dict(Field("id", id) @@ Field("replies", replies)
         @@ ("author" :> Str("u1")) @@ ("body" :> Str("hi")) @@ ("score" :> Num(1))
         @@ ("stickied" :> Bool(TRUE)))
Entry(kind, data) == Dict(Field("kind", kind) @@ Field("data", data))
CommentEntry(id, replies) == Entry(Str("t1"), CommentData(id, replies))

CommentIds == {Str("c1"), Str("c2"), Absent}

\* entries that hold no further entry
LeafEntries ==
    {Str("x"),                                         \* not a record
     Entry(Str("more"), Dict("id" :> Str("m1"))),      \* a "load more" stub
     Entry(Absent, CommentData(Str("c1"), Str(""))),   \* a record without "kind"
     Entry(Str("t1"), Absent),                         \* a comment without "data"
     Entry(Str("t1"), None)}                           \* a comment whose data is no record
    \cup {CommentEntry(id, Str("")) : id \in CommentIds}
    \cup {CommentEntry(Str("c1"), r) :
            r \in {Absent, Listing(List(<<>>)), EmptyDict, Dict("data" :> None),
                   Listing(None)}}

\* what an entry of a forest is: one of the entries above, or a comment with
\* the given id whose replies are a listing of further entries
EntryLabels ==
    {[leaf |-> TRUE, entry |-> e] : e \in LeafEntries}
    \cup {[leaf |-> FALSE, id |-> id] : id \in CommentIds}

\* A forest of n entries, numbered 1..n in the order the response lists them
\* (an entry before its replies, these before its next sibling), is given by
\* the parent of each entry (0 at the top level) and by the label of each.
RECURSIVE IsAncestorOrSelf(_, _, _)
IsAncestorOrSelf(par, a, i) ==
    IF i = 0 THEN FALSE ELSE a = i \/ IsAncestorOrSelf(par, a, par[i])

ValidParents(par, n) ==
    /\ \A i \in 1..n : par[i] < i
    /\ \A i \in 2..n : par[i] = 0 \/ IsAncestorOrSelf(par, par[i], i - 1)

ValidLabels(par, lab, n) ==
    \A i \in 1..n : lab[i].leaf <=> ~(\E j \in 1..n : par[j] = i)

\* the entries of 1..n whose parent is i, in order
RECURSIVE ChildrenFrom(_, _, _, _)
ChildrenFrom(par, n, i, j) ==
    IF j > n THEN <<>>
    ELSE (IF par[j] = i THEN <<j>> ELSE <<>>) \o ChildrenFrom(par, n, i, j + 1)

RECURSIVE BuildEntries(_, _, _, _)
BuildEntries(par, lab, n, i) ==
    LET ch == ChildrenFrom(par, n, i, 1) IN
    [k \in 1..Len(ch) |->
        IF lab[ch[k]].leaf THEN lab[ch[k]].entry
        ELSE CommentEntry(lab[ch[k]].id,
                          Listing(List(BuildEntries(par, lab, n, ch[k]))))]

\* the /comments body whose top-level comment listing is that forest
TreeBody(par, lab, n) ==
    List(<<PostListing, Listing(List(BuildEntries(par, lab, n, 0)))>>)

\* /comments bodies of another top-level shape
OddBodies ==
    {InvalidJson, None, EmptyDict, List(<<>>), List(<<PostListing>>),
     List(<<PostListing, None>>), List(<<PostListing, Str("x")>>),
     List(<<PostListing, EmptyDict>>), List(<<PostListing, Dict("data" :> EmptyDict)>>),
     List(<<PostListing, Listing(None)>>), List(<<PostListing, Listing(Str("x"))>>),
     List(<<PostListing, Listing(Dict("kind" :> Str("t1")))>>),
     List(<<PostListing, Listing(List(<<CommentEntry(Str("c1"), Str(""))>>)), None>>)}

Response(status, body, flag) ==
    [net |-> "ok", status |-> status, body |-> body, jsonErrorIsRequestException |-> flag]
NoResponse(failure) ==
    [net |-> failure, status |-> 0, body |-> None, jsonErrorIsRequestException |-> TRUE]

\* the servers a call meets with each of `bodies`, and with failures
Servers(bodies, someBody) ==
    {Response(200, b, TRUE) : b \in bodies}
    \cup {Response(200, InvalidJson, FALSE)}
    \cup {Response(st, someBody, TRUE) : st \in {201, 401, 404, 500}}
    \cup {NoResponse(f) : f \in TransportFailures}

TokenBodies ==
    {Dict("access_token" :> tok) : tok \in {Str("tok1"), Str("tok2"), None}}
    \cup {Dict(("access_token" :> Str("tok1")) @@ ("expires_in" :> Num(3600))),
          Dict("error" :> Str("invalid_grant")), EmptyDict, List(<<>>),
          List(<<Str("access_token")>>), Str("access_token"), Str("error"),
          None, Num(5), InvalidJson}

TokenCalls ==
    {<<[client_id |-> c, secret_key |-> k], srv>> :
        c \in {"id1", "id2"}, k \in {"key1", "key2"},
        srv \in Servers(TokenBodies, Dict("access_token" :> Str("tok1")))
                \cup {Response(st, Dict("error" :> Str("invalid_grant")), TRUE) :
                        st \in {401, 500}}}

\* children of a posts listing: posts, and entries that are not posts
PostEntries ==
    {Entry(Str("t3"), Dict(("id" :> Str(p)) @@ ("title" :> Str("t")))) : p \in {"p1", "p2"}}
    \cup {Entry(Str("t3"), Absent), Str("x"), None}

RECURSIVE SeqsUpTo(_, _)
SeqsUpTo(S, n) ==
    IF n = 0 THEN {<<>>}
    ELSE SeqsUpTo(S, n - 1)
         \cup {Append(q, x) : q \in {r \in SeqsUpTo(S, n - 1) : Len(r) = n - 1}, x \in S}

PostsBodies ==
    {Listing(List(ch)) : ch \in SeqsUpTo(PostEntries, MaxPosts)}
    \cup {InvalidJson, None, EmptyDict, Str("data"), List(<<Str("data")>>),
          Dict("data" :> EmptyDict), Dict("data" :> None), Listing(None),
          Listing(Str("x")), Listing(Dict("data" :> None))}

Subreddits == {Str("python"), Str(""), None, Num(7), List(<<>>)}
Limits ==
    {Num(n) : n \in {-1, 0, 1, 2, 100, 101}}
    \cup {Bool(TRUE), Bool(FALSE), Str("10"), Float("2.5"), None}

PostsCalls ==
    {<<[subreddit |-> Str("python"), limit |-> l, token |-> "tok1", timeline |-> tl], srv>> :
        l \in {Num(1), Num(2), Num(100), Bool(TRUE)}, tl \in RedditTimeline,
        srv \in Servers(PostsBodies, Listing(List(<<>>)))}
    \cup {<<[subreddit |-> sr, limit |-> l, token |-> "tok1", timeline |-> "hot"], srv>> :
            sr \in Subreddits, l \in Limits,
            srv \in {Response(200, Listing(List(<<>>)), TRUE), NoResponse("Timeout")}}

PostIds == {Str("abc123"), Str(""), None, Num(7)}

CommentsCalls ==
    {<<[post_id |-> Str("abc123"), token |-> "tok1"], srv>> :
        srv \in Servers(OddBodies, List(<<PostListing, Listing(List(<<>>))>>))}
    \cup {<<[post_id |-> id, token |-> "tok1"], srv>> :
            id \in PostIds,
            srv \in {Response(200, List(<<PostListing, Listing(List(<<CommentEntry(Str("c1"), Str(""))>>))>>), TRUE),
                     NoResponse("ConnectionError")}}

Pending == [pending |-> TRUE]

Init ==
    /\ pc = "call"
    /\ http = <<>>
    /\ outcome = Pending
    /\ \/ \E call \in ({"get_access_token"} \X TokenCalls)
                      \cup ({"fetch_posts"} \X PostsCalls)
                      \cup ({"fetch_comments"} \X CommentsCalls) :
             /\ op = call[1]
             /\ args = call[2][1]
             /\ server = call[2][2]
       \/ \E n \in 0..MaxNodes :
            \E par \in [1..n -> 0..(n - 1)] :
               /\ ValidParents(par, n)
               /\ \E lab \in [1..n -> EntryLabels] :
                     /\ ValidLabels(par, lab, n)
                     /\ op = "fetch_comments"
                     /\ args = [post_id |-> Str("abc123"), token |-> "tok1"]
                     /\ server = Response(200, TreeBody(par, lab, n), TRUE)

Next == get_access_token \/ fetch_posts \/ fetch_comments

Spec == Init /\ [][Next]_vars

(***************************************************************************)
(* Properties.                                                             *)
(***************************************************************************)
Done(o) == pc = "done" /\ op = o

\* fetch_comments has returned a sequence of records
CommentsReturned == Done("fetch_comments") /\ outcome.ok

\* C1: in every sequence fetch_comments returns, the parent_comment_id of a
\* record is null or is the comment_id of a record at a strictly earlier
\* position of the same sequence.
C1_ParentPrecedes ==
    CommentsReturned =>
        \A i \in 1..Len(outcome.val) :
            \/ outcome.val[i].parent_comment_id = None
            \/ \E j \in 1..(i - 1) :
                  outcome.val[j].comment_id = outcome.val[i].parent_comment_id

\* C1 witness: a returned sequence with a reply to a reply, whose parent is
\* not null.
C1_Witness ==
    /\ CommentsReturned
    /\ \E i \in 1..Len(outcome.val) :
          /\ outcome.val[i].level = 2
          /\ outcome.val[i].parent_comment_id # None

\* the inputs fetch_posts accepts, as its contract states them: subreddit a
\* non-empty string, limit an integer from 1 to 100 (Python's True is the
\* integer 1, False the integer 0)
C2_SubredditAccepted == args.subreddit.t = "str" /\ args.subreddit.s # ""
C2_LimitAccepted ==
    \/ args.limit.t = "int" /\ args.limit.n >= 1 /\ args.limit.n <= 100
    \/ args.limit = Bool(TRUE)

\* C2: on a subreddit that is empty or not a string, or a limit that is not
\* an integer in [1, 100], fetch_posts raises ValueError and has issued no
\* HTTP request, whatever the server would have answered.
C2_InvalidInputNoRequest ==
    (Done("fetch_posts") /\ ~(C2_SubredditAccepted /\ C2_LimitAccepted)) =>
        (outcome = Raise("ValueError") /\ http = <<>>)

\* C2 witness: a call with limit 101 against a server that would have
\* answered ended in ValueError with no request issued.
C2_Witness ==
    /\ Done("fetch_posts")
    /\ args.subreddit = Str("python")
    /\ args.limit = Num(101)
    /\ server.net = "ok"
    /\ outcome = Raise("ValueError")
    /\ http = <<>>

\* fetch_posts has returned a sequence of posts
PostsReturned == Done("fetch_posts") /\ outcome.ok

\* the number of children of the listing in the response (0 when the
\* children value is not a list)
C3_ChildrenInResponse ==
    LET children == server.body.f["data"].f["children"] IN
    IF IsList(children) THEN Len(children.items) ELSE 0

\* C3 as stated: whenever fetch_posts returns, the returned sequence is no
\* longer than limit, for every provider response.
C3_LengthAtMostLimit ==
    PostsReturned => Len(outcome.val) <= IntVal(args.limit)

\* C3 amended: whenever fetch_posts returns, it has issued exactly one GET
\* with query limit equal to the input, and the returned sequence is no longer
\* than the children listing of the provider's response (so it is no longer
\* than limit when the provider returned at most limit children).
C3_LengthAtMostChildren ==
    PostsReturned =>
        /\ Len(http) = 1
        /\ http[1].method = "GET"
        /\ http[1].params = [limit |-> args.limit]
        /\ Len(outcome.val) <= C3_ChildrenInResponse

\* C3 witness: fetch_posts returned more posts than limit, as many as the
\* response held.
C3_Witness ==
    /\ PostsReturned
    /\ args.limit = Num(1)
    /\ Len(outcome.val) = 2
    /\ C3_ChildrenInResponse = 2

\* an entry with a kind tag other than "t1", such as a "more" stub
NotComment(e) == IsDict(e) /\ "kind" \in DOMAIN e.f /\ e.f["kind"] # Str("t1")

\* a comment entry whose data is not a record
MalformedNode(e) ==
    /\ IsDict(e) /\ Get(e, "kind", None) = Str("t1")
    /\ "data" \in DOMAIN e.f /\ ~IsDict(e.f["data"])

Dropped(which, e) ==
    IF which = "NotComment" THEN NotComment(e) ELSE MalformedNode(e)

\* v is a listing object: a dict whose "data" is a dict whose "children" is a list
IsListing(v) ==
    /\ IsDict(v) /\ "data" \in DOMAIN v.f
    /\ IsDict(v.f["data"]) /\ "children" \in DOMAIN v.f["data"].f
    /\ IsList(v.f["data"].f["children"])

\* the entries of a listing (none when v is no listing)
EntriesOf(v) == IF IsListing(v) THEN v.f["data"].f["children"].items ELSE <<>>

\* the listing with other entries
WithEntries(v, items) ==
    Dict([v.f EXCEPT !["data"] = Dict([@.f EXCEPT !["children"] = List(items)])])

\* the reply entries of an entry (none when it has no reply listing)
ReplyEntries(e) ==
    IF IsDict(e) /\ "data" \in DOMAIN e.f /\ IsDict(e.f["data"])
    THEN EntriesOf(Get(e.f["data"], "replies", None))
    ELSE <<>>

\* the top-level entries of a /comments body (none when it has another shape)
TopLevelEntries(body) ==
    IF IsList(body) /\ Len(body.items) >= 2 THEN EntriesOf(body.items[2]) ELSE <<>>

\* A sequence of entries with the entries that are Dropped deleted, from the
\* sequence and from the replies of every entry that stays, at every depth;
\* everything else is left as it is.
RECURSIVE WithoutEntries(_, _)
WithoutEntries(items, which) ==
    IF items = <<>> THEN <<>>
    ELSE LET e == Head(items)
             rest == WithoutEntries(Tail(items), which)
         IN  IF Dropped(which, e) THEN rest
             ELSE IF IsDict(e) /\ "data" \in DOMAIN e.f /\ IsDict(e.f["data"])
                     /\ IsListing(Get(e.f["data"], "replies", None))
                  THEN <<Dict([e.f EXCEPT !["data"] =
                            Dict([@.f EXCEPT !["replies"] =
                                WithEntries(@, WithoutEntries(EntriesOf(@), which))])])>>
                       \o rest
                  ELSE <<e>> \o rest

\* the same for the top-level comment listing of a /comments body
WithoutInBody(body, which) ==
    IF IsList(body) /\ Len(body.items) >= 2 /\ IsListing(body.items[2])
    THEN List([body.items EXCEPT ![2] =
                  WithEntries(@, WithoutEntries(EntriesOf(@), which))])
    ELSE body

\* fetch_comments was called with an accepted post_id
CommentsRequested == Done("fetch_comments") /\ IsStr(args.post_id) /\ args.post_id.s # ""

\* C4: entries whose kind is not "t1" contribute nothing to the outcome of
\* fetch_comments, at any depth (the outcome is that of the same response
\* with these entries deleted), and the call issues exactly one GET whatever
\* the reply tree is.
C4_NonCommentsContributeNothing ==
    CommentsRequested =>
        /\ Len(http) = 1
        /\ http[1] = CommentsRequest(args.post_id, args.token)
        /\ outcome = fetch_comments_result(args.post_id,
                        [server EXCEPT !.body = WithoutInBody(@, "NotComment")])

\* C4 witness: a call returned two records from a response in which a
\* comment has a "more" entry among its replies.
C4_Witness ==
    /\ CommentsReturned
    /\ Len(outcome.val) = 2
    /\ Len(http) = 1
    /\ \E i \in 1..Len(TopLevelEntries(server.body)) :
          \E j \in 1..Len(ReplyEntries(TopLevelEntries(server.body)[i])) :
             NotComment(ReplyEntries(TopLevelEntries(server.body)[i])[j])

\* the GET of a fetch_comments call has succeeded and its body has parsed
CommentsParsed ==
    /\ CommentsRequested
    /\ server.net = "ok"
    /\ server.status < 400
    /\ server.body # InvalidJson

\* C5 as stated: get_access_token raises ValueError whenever the parsed body
\* lacks "access_token", raises RequestException whenever the status is a
\* failure or the request fails in transport, and returns (the value of the
\* field) only when the status is a success and the field is present.
C5_TokenErrors ==
    Done("get_access_token") =>
        LET sent == server.net = "ok" /\ server.status < 400
            parsed == sent /\ server.body # InvalidJson
            present == IsDict(server.body) /\ "access_token" \in DOMAIN server.body.f
        IN  /\ (parsed /\ ~present) => outcome = Raise("ValueError")
            /\ ~sent => outcome = Raise("RequestException")
            /\ outcome.ok => (parsed /\ present
                              /\ outcome.val = server.body.f["access_token"])

\* C6 as stated: once the GET has succeeded, whatever fetch_comments raises
\* while it processes the body is a ValueError.
C6_OnlyValueErrorEscapes ==
    (CommentsParsed /\ ~outcome.ok) => outcome.exc = "ValueError"

RECURSIVE WellFormedEntries(_)
WellFormedEntries(items) ==
    \A i \in 1..Len(items) :
        LET e == items[i] IN
        /\ IsDict(e) /\ "kind" \in DOMAIN e.f
        /\ e.f["kind"] = Str("t1") =>
              /\ "data" \in DOMAIN e.f /\ IsDict(e.f["data"])
              /\ LET replies == Get(e.f["data"], "replies", Str("")) IN
                 \/ replies = Str("")
                 \/ IsListing(replies) /\ WellFormedEntries(EntriesOf(replies))

WellFormedBody(body) ==
    /\ IsList(body) /\ Len(body.items) >= 2 /\ IsListing(body.items[2])
    /\ WellFormedEntries(EntriesOf(body.items[2]))

\* A node is named by its path: the positions, from the top-level listing
\* down, of the entries that lead to it.  The paths of the nodes reachable
\* from a top-level "t1" entry through "t1" entries only:
RECURSIVE CommentPaths(_, _)
CommentPaths(items, prefix) ==
    UNION {IF items[i].f["kind"] = Str("t1")
           THEN {Append(prefix, i)}
                \cup CommentPaths(ReplyEntries(items[i]), Append(prefix, i))
           ELSE {} : i \in 1..Len(items)}

\* the data of the node at path p
RECURSIVE DataAt(_, _)
DataAt(items, p) ==
    IF Len(p) = 1 THEN items[p[1]].f["data"]
    ELSE DataAt(ReplyEntries(items[p[1]]), Tail(p))

\* q is a proper prefix of p (the node at q is an ancestor of the node at p)
IsAncestor(q, p) == Len(q) < Len(p) /\ \A k \in 1..Len(q) : q[k] = p[k]

\* q comes before p in pre-order: q is an ancestor of p, or at the first
\* position where they differ q takes the earlier entry
Before(q, p) ==
    \/ IsAncestor(q, p)
    \/ \E k \in 1..Len(q) :
          /\ k <= Len(p) /\ q[k] < p[k]
          /\ \A m \in 1..(k - 1) : q[m] = p[m]

\* the position of the node at p in the pre-order enumeration of paths
Position(paths, p) == 1 + Cardinality({q \in paths : Before(q, p)})

\* the record of the node at p
RecordAt(items, p, post_id) ==
    LET d == DataAt(items, p) IN
    [comment_id |-> Get(d, "id", None),
     post_id |-> post_id,
     parent_comment_id |->
        IF Len(p) = 1 THEN None
        ELSE Get(DataAt(items, SubSeq(p, 1, Len(p) - 1)), "id", None),
     author |-> Get(d, "author", None),
     body |-> Get(d, "body", None),
     score |-> Get(d, "score", None),
     created_utc |-> Get(d, "created_utc", None),
     edited |-> Get(d, "edited", Bool(FALSE)),
     is_submitter |-> Get(d, "is_submitter", Bool(FALSE)),
     stickied |-> Get(d, "stickied", Bool(FALSE)),
     level |-> Len(p) - 1]

\* C9: on a well-formed comment tree fetch_comments returns the pre-order
\* depth-first enumeration of the nodes reachable from a top-level "t1" entry
\* through "t1" entries only: one record per such node and no others, the
\* record of a node at its pre-order position (after its ancestors, before
\* its descendants, each subtree a contiguous block, siblings in provider
\* order), with post_id the call's, level the node's depth and
\* parent_comment_id the id of the parent node (null at the top level).
C9_PreOrderEnumeration ==
    (CommentsParsed /\ WellFormedBody(server.body)) =>
        LET items == TopLevelEntries(server.body)
            paths == CommentPaths(items, <<>>)
        IN  /\ outcome.ok
            /\ Len(outcome.val) = Cardinality(paths)
            /\ \A p \in paths :
                  outcome.val[Position(paths, p)] = RecordAt(items, p, args.post_id)

\* C9 witness: a well-formed tree of three comments, a top-level comment with
\* a reply followed by a second top-level comment, returned as three records
\* with the reply between the two.
C9_Witness ==
    /\ CommentsParsed /\ WellFormedBody(server.body)
    /\ outcome.ok /\ Len(outcome.val) = 3
    /\ outcome.val[1].level = 0
    /\ outcome.val[2].level = 1
    /\ outcome.val[3].level = 0

\* C10 as stated: in every returned sequence a record has a null
\* parent_comment_id if and only if its level is 0.
C10_NullParentIffRoot ==
    CommentsReturned =>
        \A i \in 1..Len(outcome.val) :
            (outcome.val[i].parent_comment_id = None) <=> (outcome.val[i].level = 0)

\* C10 amended: in every returned sequence a record of level 0 has a null
\* parent_comment_id, and a record of level n > 0 has the comment_id of its
\* parent's record, the nearest earlier record of level n - 1, with only
\* deeper records in between; it is null exactly when that comment_id is
\* (the parent node has no "id").
C10_ParentIdIsParentsCommentId ==
    CommentsReturned =>
        \A i \in 1..Len(outcome.val) :
            IF outcome.val[i].level = 0
            THEN outcome.val[i].parent_comment_id = None
            ELSE \E j \in 1..(i - 1) :
                    /\ outcome.val[j].level = outcome.val[i].level - 1
                    /\ \A k \in (j + 1)..(i - 1) :
                          outcome.val[k].level >= outcome.val[i].level
                    /\ outcome.val[i].parent_comment_id = outcome.val[j].comment_id

\* C10 witness: a returned sequence with a record of level 1 whose
\* parent_comment_id is null, after a parent record without a comment_id, and
\* a record of level 1 or more whose parent_comment_id is not null.
C10_Witness ==
    /\ CommentsReturned
    /\ \E i \in 2..Len(outcome.val) :
          /\ outcome.val[i].level = 1
          /\ outcome.val[i].parent_comment_id = None
          /\ outcome.val[i - 1].comment_id = None
    /\ \E i \in 1..Len(outcome.val) :
          /\ outcome.val[i].level > 0
          /\ outcome.val[i].parent_comment_id # None

====
